---- MODULE Spec2Model ----
(***************************************************************************)
(* A model of lsst.ts.observing.block: the scheduling-constraint variants, *)
(* the discriminated union SchedulingConstraints, ObservingScript and      *)
(* ObservingBlock (construction, add_constraint, the JSON round trip).     *)
(*                                                                         *)
(* Python values are modelled as follows.                                  *)
(*   - A field value is a record [k, n, s]: k is the Python type of the    *)
(*     value ("fin" a finite float, "nan", "inf", "ninf" the IEEE specials,*)
(*     "str" a string, "null" None, "missing" an absent keyword), n the    *)
(*     float in tenths (10 is 1.0, 1800 is 180.0), s the string as a       *)
(*     sequence of characters.                                             *)
(*   - A constraint object or mapping is a record                          *)
(*     [cls, name, max, band, note]: cls is the Python class ("dict" for a *)
(*     plain mapping, "Base" for SchedulingConstraint itself), note is an  *)
(*     extra field (model_config extra="allow").                           *)
(*   - Script objects and lists live in heaps (sequences indexed by        *)
(*     reference) so that sharing by reference is visible.                 *)
(***************************************************************************)
EXTENDS Integers, Sequences, FiniteSets, TLC

VARIABLES
    scriptObj,  \* heap of ObservingScript objects: ref -> [name, standard, parameters]
    slists,     \* heap of Python lists of script refs: ref -> Seq(script ref)
    clists,     \* heap of Python lists of constraint values: ref -> Seq(value)
    blocks,     \* the ObservingBlock objects constructed so far, in order
    generated,  \* the UUIDs uuid.uuid4() has returned so far
    parsed,     \* the block the last parse_obj returned, by value (NoBlock: none)
    last        \* the last call: its operation, arguments and outcome

vars == <<scriptObj, slists, clists, blocks, generated, parsed, last>>

(***************************************************************************)
(* Bounds of the model.                                                    *)
(***************************************************************************)
MaxBandLen == 2

(***************************************************************************)
(* Python values.                                                          *)
(***************************************************************************)
Missing == [k |-> "missing", n |-> 0, s |-> <<>>]
Null == [k |-> "null", n |-> 0, s |-> <<>>]
NaN == [k |-> "nan", n |-> 0, s |-> <<>>]
PosInf == [k |-> "inf", n |-> 0, s |-> <<>>]
NegInf == [k |-> "ninf", n |-> 0, s |-> <<>>]
Fin(x) == [k |-> "fin", n |-> x, s |-> <<>>]
Str(t) == [k |-> "str", n |-> 0, s |-> t]

IsFloat(v) == v.k \in {"fin", "nan", "inf", "ninf"}

\* Python's float "<": every comparison with a NaN is False.
FloatLt(a, b) ==
    IF a.k = "nan" \/ b.k = "nan" THEN FALSE
    ELSE IF a.k = "ninf" THEN b.k # "ninf"
    ELSE IF a.k = "inf" THEN FALSE
    ELSE IF b.k = "inf" THEN TRUE
    ELSE IF b.k = "ninf" THEN FALSE
    ELSE a.n < b.n

FloatGt(a, b) == FloatLt(b, a)

\* Python's "v in s" for two strings: v occurs in s as a substring.
StrIn(v, t) ==
    \E i \in 0..(Len(t) - Len(v)) :
        \A j \in 1..Len(v) : t[i + j] = v[j]

(***************************************************************************)
(* The constraint classes.                                                 *)
(***************************************************************************)
Classes ==
    {"Airmass", "MoonBrightness", "MoonDistance", "SkyBrightness",
     "CloudExtinction", "Seeing"}

NoName == "<no name>"

\* The Literal each class declares for its name field.
TagOf(cls) ==
    CASE cls = "Airmass" -> "airmass"
      [] cls = "MoonBrightness" -> "moon_brightness"
      [] cls = "MoonDistance" -> "moon_distance"
      [] cls = "SkyBrightness" -> "sky_brightness"
      [] cls = "CloudExtinction" -> "cloud_extinction"
      [] cls = "Seeing" -> "seeing"
      [] OTHER -> NoName

Tags == {TagOf(c) : c \in Classes}

\* The union's discriminator: the class a name selects.
ClassOfTag(t) == CHOOSE c \in Classes : TagOf(c) = t

bands == <<"u", "g", "r", "i", "z", "y">>

\* AirmassConstraint.check_max: TRUE when the validator raises.
AirmassRaises(v) == FloatLt(v, Fin(10))

b_min == Fin(0)
b_max == Fin(10)
\* MoonBrightnessConstraint.check_max
MoonBrightnessRaises(v) == FloatLt(v, b_min) \/ FloatGt(v, b_max)

d_min == Fin(0)
d_max == Fin(1800)
\* MoonDistanceConstraint.check_max
MoonDistanceRaises(v) == FloatLt(v, d_min) \/ FloatGt(v, d_max)

\* SkyBrightnessConstraint.check_band
BandRaises(v) == ~StrIn(v, bands)

\* SkyBrightnessConstraint.check_max
SkyBrightnessRaises(v) == FloatLt(v, Fin(0))

\* CloudExtinctionConstraint.check_max
CloudExtinctionRaises(v) == FloatLt(v, Fin(0))

\* SeeingConstraint.check_max
SeeingRaises(v) == FloatLt(v, Fin(0))

\* The field_validator("max") of each class.
CheckMaxRaises(cls, v) ==
    CASE cls = "Airmass" -> AirmassRaises(v)
      [] cls = "MoonBrightness" -> MoonBrightnessRaises(v)
      [] cls = "MoonDistance" -> MoonDistanceRaises(v)
      [] cls = "SkyBrightness" -> SkyBrightnessRaises(v)
      [] cls = "CloudExtinction" -> CloudExtinctionRaises(v)
      [] cls = "Seeing" -> SeeingRaises(v)

\* Validation of the fields of one class from keywords (or a mapping's keys):
\* name is a Literal with a default, max a required float, band a required str
\* of SkyBrightnessConstraint only; any other key is kept (extra="allow").
FieldsRaise(cls, kw) ==
    \/ kw.name # NoName /\ kw.name # TagOf(cls)
    \/ ~IsFloat(kw.max)
    \/ CheckMaxRaises(cls, kw.max)
    \/ cls = "SkyBrightness" /\ (kw.band.k # "str" \/ BandRaises(kw.band.s))

\* A plain mapping (also the keywords of a constructor call).
Dict(name, max, band, note) ==
    [cls |-> "dict", name |-> name, max |-> max, band |-> band, note |-> note]

NoValue == [cls |-> "None", name |-> NoName, max |-> Missing, band |-> Missing, note |-> Missing]

\* The instance a successful construction returns: the fields as given, the
\* name defaulted to the class's Literal.
Instance(cls, kw) ==
    [cls |-> cls, name |-> TagOf(cls), max |-> kw.max, band |-> kw.band, note |-> kw.note]

\* the call cls(kw): a ValidationError and no instance, or the instance.
Construct(cls, kw) ==
    IF FieldsRaise(cls, kw)
    THEN [err |-> "ValidationError", val |-> NoValue]
    ELSE [err |-> "none", val |-> Instance(cls, kw)]

(***************************************************************************)
(* The record of a call: the operation, its arguments, the exception it    *)
(* raised ("none" when it returned) and what it returned.                  *)
(***************************************************************************)
Call(op, cls, arg, err, val, b) ==
    [op |-> op, cls |-> cls, arg |-> arg, err |-> err, val |-> val, b |-> b]

NoCall == Call("init", "None", NoValue, "none", NoValue, 0)

(***************************************************************************)
(* Constructing one constraint: the call cls(kw).                          *)
(***************************************************************************)
BandAlphabet == {"u", "g", "r", "i", "z", "y", "x"}

Strings(n) == UNION {[1..m -> BandAlphabet] : m \in 0..n}

MaxInputs ==
    {Fin(-20), Fin(-1), Fin(0), Fin(5), Fin(10), Fin(14), Fin(900), Fin(1800),
     Fin(1801), Fin(1900), NaN, PosInf, NegInf, Str(<<"h", "a", "l", "f">>),
     Missing}

BandInputs == {Str(t) : t \in Strings(MaxBandLen) \cup {bands}} \cup {Missing, Fin(10)}

NoteInputs == {Missing, Str(<<"x">>)}

KwInputs(cls) ==
    {Dict(nm, mx, bd, nt) :
        nm \in {NoName, TagOf(cls), "bogus"},
        mx \in MaxInputs,
        bd \in IF cls = "SkyBrightness" THEN BandInputs ELSE {Missing, Str(<<"u">>)},
        nt \in NoteInputs}

\* The caller has put together the keywords of a constructor call.
Prepared(cls, kw) == Call("prepare", cls, kw, "none", NoValue, 0)

NewConstraint ==
    /\ last.op = "prepare"
    /\ LET r == Construct(last.cls, last.arg)
       IN  last' = Call("construct", last.cls, last.arg, r.err, r.val, 0)
    /\ UNCHANGED <<scriptObj, slists, clists, blocks, generated, parsed>>

InitConstraint ==
    /\ scriptObj = <<>>
    /\ slists = <<>>
    /\ clists = <<>>
    /\ blocks = <<>>
    /\ generated = {}
    /\ parsed = [name |-> NoName]
    /\ last \in {Prepared(cls, kw) : cls \in Classes, kw \in UNION {KwInputs(c) : c \in Classes}}

NextConstraint == NewConstraint

SpecConstraint == InitConstraint /\ [][NextConstraint]_vars

(***************************************************************************)
(* The discriminated union SchedulingConstraints: validation of one item   *)
(* of a constraints list.  A mapping is dispatched on its name key to the  *)
(* class of that name and validated by it.  An object is dispatched on its *)
(* name attribute and accepted as it is when it is an instance of the      *)
(* class of that name; any other object is refused.                        *)
(***************************************************************************)
ValidateUnion(v) ==
    IF v.name \notin Tags
    THEN [err |-> "ValidationError", val |-> NoValue]
    ELSE IF v.cls = "dict"
    THEN Construct(ClassOfTag(v.name), v)
    ELSE IF v.cls = ClassOfTag(v.name)
    THEN [err |-> "none", val |-> v]
    ELSE [err |-> "ValidationError", val |-> NoValue]

\* list[SchedulingConstraints]: a new list of the validated items, in order;
\* one item that fails fails the list.
ValidateConstraintList(items) ==
    IF \E i \in 1..Len(items) : ValidateUnion(items[i]).err # "none"
    THEN [err |-> "ValidationError", val |-> <<>>]
    ELSE [err |-> "none", val |-> [i \in 1..Len(items) |-> ValidateUnion(items[i]).val]]

(***************************************************************************)
(* UUIDs.  Uuid(n) is the uuid.UUID object numbered n; UuidText(f, n) is a *)
(* str holding its text in form f ("canonical" is what str(uuid) gives,    *)
(* "upper" the same digits in upper case, which uuid.UUID also reads).     *)
(***************************************************************************)
Uuid(n) == [k |-> "uuid", n |-> n, s |-> <<>>]
UuidText(f, n) == [k |-> "str", n |-> n, s |-> <<f>>]
BadText == [k |-> "str", n |-> 0, s |-> <<"not a uuid">>]

\* Validation of the id field: a UUID object as it is, a str parsed.
ValidateId(v) ==
    IF v.k = "uuid" THEN [err |-> "none", val |-> v.n]
    ELSE IF v.k = "str" /\ v.s \in {<<"canonical">>, <<"upper">>}
    THEN [err |-> "none", val |-> v.n]
    ELSE [err |-> "ValidationError", val |-> 0]

(***************************************************************************)
(* ObservingBlock(name=, program=, id=, scripts=, constraints=).           *)
(* scripts and constraints are references to the caller's lists (0: the    *)
(* keyword is omitted); id is a value or Missing.  A block is the record   *)
(* [name, id, program, constraints, scripts, idFrom]: constraints and      *)
(* scripts are references to the block's own lists, idFrom tells whether   *)
(* the id was given or came from the default factory.                      *)
(***************************************************************************)
MaxBlocks == 2
MaxConstraints == 2
MaxListLen == 3
MaxWireConstraints == 2
NumUuids == 3

UUIDs == 1..NumUuids

\* The caller's list object kept as the block's own.
ScriptListRefShared(sref) == sref

\* The list object the validated scripts are stored in: a new one.
ScriptListRef(sref) == Len(slists) + 1

\* The list object the validated constraints are stored in: a new one.
ConstraintListRef(cref) == Len(clists) + 1

\* One default for every block, as Field(default=uuid.uuid4()) would give.
DefaultIdsOnce == {1}

\* Field(default_factory=uuid.uuid4): uuid4 is called at each construction
\* and returns a UUID it has not returned before; UUIDs are only compared
\* for equality, so which one it returns is immaterial: the least is taken.
DefaultIds ==
    {n \in UUIDs : n \notin generated /\ \A m \in UUIDs : m < n => m \in generated}

NoBlock == [name |-> NoName]

Block(nm, id, prog, cs, ss, from) ==
    [name |-> nm, id |-> id, program |-> prog, constraints |-> cs,
     scripts |-> ss, idFrom |-> from]

BlockArgs(nm, prog, idArg, sref, cref) ==
    [name |-> nm, program |-> prog, id |-> idArg, scripts |-> sref, constraints |-> cref]

\* The effect of a successful construction from the validated fields.
StoreBlock(nm, prog, id, from, sref, sitems, cref, citems) ==
    /\ slists' = IF ScriptListRef(sref) > Len(slists)
                 THEN Append(slists, sitems)
                 ELSE [slists EXCEPT ![ScriptListRef(sref)] = sitems]
    /\ clists' = IF ConstraintListRef(cref) > Len(clists)
                 THEN Append(clists, citems)
                 ELSE [clists EXCEPT ![ConstraintListRef(cref)] = citems]
    /\ blocks' = Append(blocks,
                    Block(nm, id, prog, ConstraintListRef(cref), ScriptListRef(sref), from))
    /\ generated' = IF from = "default" THEN generated \cup {id} ELSE generated

NewBlock(nm, prog, idArg, sref, cref) ==
    LET cs == IF cref = 0 THEN [err |-> "none", val |-> <<>>]
              ELSE ValidateConstraintList(clists[cref])
        iv == IF idArg = Missing THEN [err |-> "none", val |-> 0] ELSE ValidateId(idArg)
        from == IF idArg = Missing THEN "default" ELSE "given"
        args == BlockArgs(nm, prog, idArg, sref, cref)
    IN  /\ parsed' = NoBlock
        /\ IF sref = 0 \/ cs.err # "none" \/ iv.err # "none"
           THEN /\ last' = Call("new_block", "None", args, "ValidationError", NoValue, 0)
                /\ UNCHANGED <<scriptObj, slists, clists, blocks, generated>>
           ELSE /\ \E id \in IF idArg = Missing THEN DefaultIds ELSE {iv.val} :
                      StoreBlock(nm, prog, id, from, sref, slists[sref], cref, cs.val)
                /\ last' = Call("new_block", "None", args, "none", NoValue, Len(blocks) + 1)
                /\ UNCHANGED scriptObj

(***************************************************************************)
(* ObservingBlock.add_constraint                                           *)
(***************************************************************************)
IsSchedulingConstraint(v) == v.cls \in Classes \cup {"Base"}

\* The new constraint takes the place of the ones of its kind.
AppendConstraintReplacing(list, v) ==
    LET Other(c) == c.name # v.name
    IN  Append(SelectSeq(list, Other), v)

\* self.constraints.append(constraint)
AppendConstraint(list, v) == Append(list, v)

AddConstraint(b, v) ==
    /\ b \in 1..Len(blocks)
    /\ IF ~IsSchedulingConstraint(v)
       THEN /\ last' = Call("add_constraint", "None", v, "ValueError", NoValue, b)
            /\ UNCHANGED clists
       ELSE /\ Len(clists[blocks[b].constraints]) < MaxConstraints
            /\ clists' = [clists EXCEPT ![blocks[b].constraints] = AppendConstraint(@, v)]
            /\ last' = Call("add_constraint", "None", v, "none", NoValue, b)
    /\ parsed' = NoBlock
    /\ UNCHANGED <<scriptObj, slists, blocks, generated>>

(***************************************************************************)
(* Assignment to a field of a constraint held in a block:                  *)
(* block.constraints[i].f = v.  SchedulingConstraint's model_config is     *)
(* frozen, and every variant inherits it.                                  *)
(***************************************************************************)
NotFrozen == FALSE

\* ConfigDict(extra="allow", frozen=True)
Frozen == TRUE

SetAttr(b, i, f, v) ==
    /\ b \in 1..Len(blocks)
    /\ i \in 1..Len(clists[blocks[b].constraints])
    /\ IF Frozen
       THEN /\ last' = Call("setattr", f, v, "ValidationError", NoValue, i)
            /\ UNCHANGED clists
       ELSE /\ last' = Call("setattr", f, v, "none", NoValue, i)
            /\ clists' = [clists EXCEPT ![blocks[b].constraints][i][f] = v]
    /\ parsed' = NoBlock
    /\ UNCHANGED <<scriptObj, slists, blocks, generated>>

(***************************************************************************)
(* A block by value: its lists and scripts read through the heaps.         *)
(***************************************************************************)
View(x) ==
    Block(x.name, x.id, x.program, clists[x.constraints],
          [i \in 1..Len(slists[x.scripts]) |-> scriptObj[slists[x.scripts][i]]],
          x.idFrom)

(***************************************************************************)
(* The wire form: json.loads(block.json()).  A float that is a NaN or an   *)
(* infinity is written as null; a UUID as its canonical text.              *)
(***************************************************************************)
ToJson(v) ==
    IF v.k \in {"nan", "inf", "ninf"} THEN Null
    ELSE IF v.k = "uuid" THEN UuidText("canonical", v.n)
    ELSE v

\* A constraint is written as the mapping of its fields, extra ones included.
SerConstraint(c) == Dict(c.name, ToJson(c.max), ToJson(c.band), ToJson(c.note))

SerScript(o) == [name |-> o.name, standard |-> o.standard, parameters |-> ToJson(o.parameters)]

Doc(nm, id, prog, cs, ss) ==
    [name |-> nm, id |-> id, program |-> prog, constraints |-> cs, scripts |-> ss]

ToWire(b) ==
    LET x == View(b)
    IN  Doc(x.name, ToJson(Uuid(x.id)), x.program,
            [i \in 1..Len(x.constraints) |-> SerConstraint(x.constraints[i])],
            [i \in 1..Len(x.scripts) |-> SerScript(x.scripts[i])])

\* ObservingScript from a mapping: name, standard and parameters are required.
ScriptRaises(d) == d.name = NoName \/ d.parameters.k = "missing"

(***************************************************************************)
(* ObservingBlock.parse_obj(doc): every field of the mapping is validated; *)
(* the scripts are new ObservingScript objects, the constraints what the   *)
(* union makes of each entry.  Every object of the block returned is new   *)
(* and shared with nothing, so the block is kept by value.                 *)
(***************************************************************************)
ParseInto(doc, op, b) ==
    LET cs == ValidateConstraintList(doc.constraints)
        iv == IF doc.id = Missing THEN [err |-> "none", val |-> 0] ELSE ValidateId(doc.id)
        from == IF doc.id = Missing THEN "default" ELSE "given"
        bad == \/ cs.err # "none"
               \/ iv.err # "none"
               \/ \E i \in 1..Len(doc.scripts) : ScriptRaises(doc.scripts[i])
    IN  /\ IF bad
           THEN /\ last' = Call(op, "None", doc, "ValidationError", NoValue, b)
                /\ parsed' = NoBlock
                /\ UNCHANGED generated
           ELSE /\ \E id \in IF doc.id = Missing THEN DefaultIds ELSE {iv.val} :
                      /\ parsed' = Block(doc.name, id, doc.program, cs.val, doc.scripts, from)
                      /\ generated' = IF from = "default" THEN generated \cup {id} ELSE generated
                /\ last' = Call(op, "None", doc, "none", NoValue, b)
        /\ UNCHANGED <<scriptObj, slists, clists, blocks>>

ParseObj(doc) == ParseInto(doc, "parse_obj", 0)

\* new = ObservingBlock.parse_obj(json.loads(block.json()))
RoundTrip(b) ==
    /\ b \in 1..Len(blocks)
    /\ ParseInto(ToWire(blocks[b]), "round_trip", b)

(***************************************************************************)
(* new == block (BaseModel.__eq__) for two blocks that share no object:    *)
(* the same class and equal fields, extra fields included; a NaN equals    *)
(* nothing.                                                                *)
(***************************************************************************)
ValEq(a, b) == a = b /\ a.k # "nan"

ConstraintEq(c, d) ==
    /\ c.cls = d.cls
    /\ c.name = d.name
    /\ ValEq(c.max, d.max)
    /\ ValEq(c.band, d.band)
    /\ ValEq(c.note, d.note)

ScriptEq(o, q) ==
    o.name = q.name /\ o.standard = q.standard /\ ValEq(o.parameters, q.parameters)

BlockEq(x, y) ==
    /\ x.name = y.name
    /\ x.id = y.id
    /\ x.program = y.program
    /\ Len(x.constraints) = Len(y.constraints)
    /\ \A i \in 1..Len(x.constraints) : ConstraintEq(x.constraints[i], y.constraints[i])
    /\ Len(x.scripts) = Len(y.scripts)
    /\ \A i \in 1..Len(x.scripts) : ScriptEq(x.scripts[i], y.scripts[i])

(***************************************************************************)
(* The caller: its scripts, its lists, the values it passes.               *)
(***************************************************************************)
script1 == [name |-> "slew", standard |-> TRUE, parameters |-> Str(<<"W48">>)]
script2 == [name |-> "standard_visit", standard |-> FALSE, parameters |-> Fin(300)]

Kw(max) == Dict(NoName, max, Missing, Missing)

\* The constraint objects the caller makes: each is what its constructor returns.
Made(cls, kw) == Construct(cls, kw).val

Airmass15 == Made("Airmass", Kw(Fin(15)))
Airmass20 == Made("Airmass", Kw(Fin(20)))
AirmassNaN == Made("Airmass", Kw(NaN))
Seeing05 == Made("Seeing", Dict(NoName, Fin(5), Missing, Str(<<"x">>)))
SkyU == Made("SkyBrightness", Dict(NoName, Fin(100), Str(<<"u">>), Missing))
SkyUG == Made("SkyBrightness", Dict(NoName, Fin(100), Str(<<"u", "g">>), Missing))

\* SchedulingConstraint(name="airmass", max=1.5) and SchedulingConstraint():
\* the base class has no field of its own, every keyword is an extra field.
BaseAirmass == [cls |-> "Base", name |-> "airmass", max |-> Fin(15), band |-> Missing, note |-> Missing]
BaseEmpty == [cls |-> "Base", name |-> NoName, max |-> Missing, band |-> Missing, note |-> Missing]

\* {"moon_brightness": 0.8} and {"name": "airmass", "max": 1.5}
DictMoon == Dict(NoName, Missing, Missing, Fin(8))
DictAirmass == Dict("airmass", Fin(15), Missing, Missing)

Objects == {Airmass15, Airmass20, AirmassNaN, Seeing05, SkyU, SkyUG, BaseAirmass, BaseEmpty}

Values == Objects \cup {DictMoon, DictAirmass}

CallerScriptLists == << <<1, 2>>, <<2, 1>>, <<>> >>

CallerConstraintLists ==
    << <<Airmass15>>, <<Seeing05, Airmass15>>, <<DictAirmass, SkyUG>>,
       <<Airmass15, DictMoon>>, <<BaseAirmass>> >>

AttrInputs == {<<"max", Fin(5)>>, <<"band", Str(<<"x">>)>>, <<"note", Missing>>}

\* The entries of a constraints array as another producer may write them.
WireEntries ==
    {Dict(nm, mx, bd, Missing) :
        nm \in {"airmass", "seeing", "sky_brightness", "unknown_kind", NoName},
        mx \in {Fin(5), Fin(15), NaN},
        bd \in {Missing, Str(<<"u">>), Str(<<"u", "g">>)}}

WireScripts == <<SerScript(script2), SerScript(script1)>>

\* A script entry without its name.
WireBadScript == [name |-> NoName, standard |-> TRUE, parameters |-> Fin(300)]

\* The documents received from another producer.
WireDocs ==
    {Doc("OBS-123", UuidText("canonical", 1), "SITCOM-456", cs, WireScripts) :
        cs \in UNION {[1..m -> WireEntries] : m \in 0..MaxWireConstraints}}
    \cup
    {Doc("OBS-123", id, "SITCOM-456", <<Dict("airmass", Fin(15), Missing, Missing)>>, ss) :
        id \in {UuidText("upper", 2), BadText, Missing},
        ss \in {<<>>, WireScripts, <<WireBadScript>>}}

Received(doc) == Call("receive", "None", doc, "none", NoValue, 0)

Init ==
    /\ scriptObj = <<script1, script2>>
    /\ slists = CallerScriptLists
    /\ clists = CallerConstraintLists
    /\ blocks = <<>>
    /\ generated = {}
    /\ parsed = NoBlock
    /\ last \in {NoCall} \cup {Received(doc) : doc \in WireDocs}

Next ==
    \/ /\ blocks = <<>>
       /\ last.op # "receive"
       /\ \E sref \in 0..Len(CallerScriptLists) : \E cref \in 0..Len(CallerConstraintLists) :
              NewBlock("OBS-123", "SITCOM-456", Missing, sref, cref)
    \/ \E b \in 1..Len(blocks) : \E v \in Values : AddConstraint(b, v)
    \/ \E b \in 1..Len(blocks) : RoundTrip(b)
    \/ /\ last.op = "receive"
       /\ ParseObj(last.arg)
    \/ \E b \in 1..Len(blocks) : \E i \in 1..MaxConstraints : \E a \in AttrInputs :
           SetAttr(b, i, a[1], a[2])

Spec == Init /\ [][Next]_vars

(***************************************************************************)
(* The declared domains of the specification's table of variants.          *)
(***************************************************************************)
AtLeast(x, lo) == x.k = "inf" \/ (x.k = "fin" /\ x.n >= lo)
AtMost(x, hi) == x.k = "ninf" \/ (x.k = "fin" /\ x.n <= hi)

InDeclaredRange(cls, x) ==
    CASE cls = "Airmass" -> AtLeast(x, 10)
      [] cls = "MoonBrightness" -> AtLeast(x, 0) /\ AtMost(x, 10)
      [] cls = "MoonDistance" -> AtLeast(x, 0) /\ AtMost(x, 1800)
      [] cls \in {"SkyBrightness", "CloudExtinction", "Seeing"} -> AtLeast(x, 0)
      [] OTHER -> FALSE

SixBands == {<<"u">>, <<"g">>, <<"r">>, <<"i">>, <<"z">>, <<"y">>}

InDeclaredBands(cls, bd) ==
    cls = "SkyBrightness" => (bd.k = "str" /\ bd.s \in SixBands)

\* The calls C1 is about: a float max, the other fields acceptable.
C1_Case ==
    /\ last.op = "construct"
    /\ IsFloat(last.arg.max)
    /\ last.arg.name \in {NoName, TagOf(last.cls)}
    /\ InDeclaredBands(last.cls, last.arg.band)

\* C1: for each of the six variants construction succeeds exactly when max
\* lies in the declared range, the instance then holding max as given; for a
\* max outside the range it fails with a ValidationError and no instance.
C1_SucceedsExactlyInRange ==
    C1_Case =>
        IF InDeclaredRange(last.cls, last.arg.max)
        THEN last.err = "none" /\ last.val.cls = last.cls /\ last.val.max = last.arg.max
        ELSE last.err = "ValidationError" /\ last.val = NoValue

\* C1 restricted to a max that is not a NaN (the part of C1 the code meets).
C1_SucceedsExactlyInRangeUnlessNaN ==
    (C1_Case /\ last.arg.max.k # "nan") => C1_SucceedsExactlyInRange

\* C2: a SkyBrightness constraint is constructed only when band is exactly one
\* of the six one-letter strings; every other string is refused.
C2_BandIsOneOfSix ==
    (last.op = "construct" /\ last.cls = "SkyBrightness" /\ last.arg.band.k = "str")
        => (last.err = "none" => last.arg.band.s \in SixBands)

\* C2 as the code meets it: band is accepted exactly when it is a substring of
\* "ugrizy" (the empty string and "ug" included).
C2_BandIsSubstring ==
    (last.op = "construct" /\ last.cls = "SkyBrightness" /\ last.arg.band.k = "str"
        /\ last.err = "none") => StrIn(last.arg.band.s, bands)

(***************************************************************************)
(* The caller and its references: SpecCaller.  The caller holds script1    *)
(* and script2, one list of scripts and one list of constraints; it builds *)
(* blocks from them, and goes on using its own references.                 *)
(***************************************************************************)
\* our_id = uuid.uuid4()
CallerUuid ==
    /\ \E id \in DefaultIds : generated' = generated \cup {id}
    /\ last' = Call("uuid4", "None", NoValue, "none", NoValue, 0)
    /\ UNCHANGED <<scriptObj, slists, clists, blocks, parsed>>

\* scripts.append(script) on the caller's list
CallerAppendScript(l, ref) ==
    /\ Len(slists[l]) < MaxListLen
    /\ slists' = [slists EXCEPT ![l] = Append(@, ref)]
    /\ last' = Call("caller_append_script", "None", NoValue, "none", NoValue, l)
    /\ UNCHANGED <<scriptObj, clists, blocks, generated, parsed>>

\* constraints.append(constraint) on the caller's list
CallerAppendConstraint(l, v) ==
    /\ Len(clists[l]) < MaxListLen
    /\ clists' = [clists EXCEPT ![l] = Append(@, v)]
    /\ last' = Call("caller_append_constraint", "None", v, "none", NoValue, l)
    /\ UNCHANGED <<scriptObj, slists, blocks, generated, parsed>>

\* script.standard = v: ObservingScript's model_config is the default one, an
\* assignment to a field is carried out.
SetScriptAttr(ref, v) ==
    /\ scriptObj[ref].standard # v
    /\ scriptObj' = [scriptObj EXCEPT ![ref].standard = v]
    /\ last' = Call("caller_setattr", "standard", NoValue, "none", NoValue, ref)
    /\ UNCHANGED <<slists, clists, blocks, generated, parsed>>

IdInputs ==
    {Missing, BadText}
        \cup {Uuid(n) : n \in generated}
        \cup {UuidText("upper", n) : n \in generated}

\* The reference of the caller's list of scripts, and of its list of constraints.
CallerListRef == 1

InitCaller ==
    /\ scriptObj = <<script1, script2>>
    /\ slists = << <<1, 2>> >>
    /\ clists = << <<Airmass15>> >>
    /\ blocks = <<>>
    /\ generated = {}
    /\ parsed = NoBlock
    /\ last = NoCall

NextCaller ==
    \/ /\ Len(blocks) < MaxBlocks
       /\ \E cref \in {0, CallerListRef} :
              NewBlock("Testing", "Something", Missing, CallerListRef, cref)
    \/ \E b \in 1..Len(blocks) : AddConstraint(b, Airmass20)
    \/ CallerAppendScript(CallerListRef, 1)
    \/ CallerAppendConstraint(CallerListRef, Seeing05)
    \/ \E v \in BOOLEAN : SetScriptAttr(1, v)

SpecCaller == InitCaller /\ [][NextCaller]_vars

(***************************************************************************)
(* The ids of blocks: SpecIdentity.  The caller makes UUIDs of its own and *)
(* constructs blocks with and without an id.                               *)
(***************************************************************************)
NextIdentity ==
    \/ CallerUuid
    \/ /\ Len(blocks) < MaxBlocks
       /\ \E idArg \in IdInputs : NewBlock("Testing", "Something", idArg, CallerListRef, 0)
    \/ \E b \in 1..Len(blocks) : \E v \in {Airmass20, DictMoon} : AddConstraint(b, v)

SpecIdentity == InitCaller /\ [][NextIdentity]_vars

(***************************************************************************)
(* Claims about a block: Spec.                                             *)
(***************************************************************************)
\* The constraints a block holds.
Held(b) == clists[blocks[b].constraints]

\* A constraint of one of the six variants with its fields in the declared domains.
IsValidVariant(c) ==
    /\ c.cls \in Classes
    /\ c.name = TagOf(c.cls)
    /\ InDeclaredRange(c.cls, c.max)
    /\ InDeclaredBands(c.cls, c.band)

\* The constraint held is the one given: the object itself, or for a mapping
\* the variant its name selects with the mapping's values.
SameConstraint(given, held) ==
    IF given.cls = "dict"
    THEN /\ held.cls = ClassOfTag(given.name)
         /\ held.name = given.name
         /\ held.max = given.max
         /\ held.band = given.band
         /\ held.note = given.note
    ELSE held = given

\* C3: serializing a block and deserializing the result yields a block equal
\* to the original (name, program, id, scripts and constraints in order, each
\* constraint of its original variant with equal fields).
C3_RoundTripEqual ==
    last.op = "round_trip" =>
        last.err = "none" /\ BlockEq(parsed, View(blocks[last.b]))

\* C3 for a block that holds only instances of the six variants whose floats
\* are finite (the part of C3 the code meets).
C3_RoundTripEqualOfFiniteVariants ==
    (/\ last.op = "round_trip"
     /\ \A i \in 1..Len(Held(last.b)) :
            Held(last.b)[i].cls \in Classes /\ Held(last.b)[i].max.k = "fin")
        => C3_RoundTripEqual

\* The documents C4 is about: the id and the scripts are acceptable.
C4_Case ==
    /\ last.op = "parse_obj"
    /\ last.arg.id.k = "str" /\ last.arg.id.s = <<"canonical">>
    /\ \A i \in 1..Len(last.arg.scripts) : last.arg.scripts[i].name # NoName

\* An entry with one of the six tags and its values in the tag's declared domain.
EntryInDomain(e) ==
    /\ e.name \in Tags
    /\ InDeclaredRange(ClassOfTag(e.name), e.max)
    /\ InDeclaredBands(ClassOfTag(e.name), e.band)

\* C4: deserialization makes of each entry the variant its tag selects, in
\* array order; one entry with a tag outside the six, with no tag, or with a
\* value outside the variant's domain fails the whole deserialization, and no
\* block is produced.
C4_ParsedByTagOrRefused ==
    C4_Case =>
        IF \A i \in 1..Len(last.arg.constraints) : EntryInDomain(last.arg.constraints[i])
        THEN /\ last.err = "none"
             /\ Len(parsed.constraints) = Len(last.arg.constraints)
             /\ \A i \in 1..Len(last.arg.constraints) :
                    SameConstraint(last.arg.constraints[i], parsed.constraints[i])
        ELSE last.err = "ValidationError" /\ parsed = NoBlock

\* C4 with the domain of each variant as its validators decide it (the part
\* of C4 the code meets): a NaN max and a band that is a substring of "ugrizy"
\* are let through.
C4_ParsedByTagOrRefusedByValidators ==
    C4_Case =>
        IF \A i \in 1..Len(last.arg.constraints) :
               /\ last.arg.constraints[i].name \in Tags
               /\ ~FieldsRaise(ClassOfTag(last.arg.constraints[i].name), last.arg.constraints[i])
        THEN /\ last.err = "none"
             /\ Len(parsed.constraints) = Len(last.arg.constraints)
             /\ \A i \in 1..Len(last.arg.constraints) :
                    SameConstraint(last.arg.constraints[i], parsed.constraints[i])
        ELSE last.err = "ValidationError" /\ parsed = NoBlock

\* A block just constructed holds the scripts and the constraints given, in order.
C5_AsConstructed ==
    (last.op = "new_block" /\ last.err = "none") =>
        LET given == IF last.arg.constraints = 0 THEN <<>> ELSE clists[last.arg.constraints]
        IN  /\ slists[blocks[last.b].scripts] = slists[last.arg.scripts]
            /\ Len(Held(last.b)) = Len(given)
            /\ \A i \in 1..Len(given) : SameConstraint(given[i], Held(last.b)[i])

\* A successful add_constraint(c) on [c1..cM] leaves [c1..cM, c].
C5_Appended ==
    (last'.op = "add_constraint" /\ last'.err = "none") =>
        clists'[blocks[last'.b].constraints] = Append(Held(last'.b), last'.arg)

\* C5: a block constructed with N scripts and M constraints has exactly those,
\* in order; each successful add_constraint(c) appends c and leaves the prior
\* constraints in place, also when c has the kind of one already held.
C5_GivenOrderKeptAndAppended == []C5_AsConstructed /\ [][C5_Appended]_vars

\* C5's case: two Airmass constraints with different max held in order.
C5_Witness ==
    /\ last.op = "add_constraint"
    /\ last.err = "none"
    /\ Held(last.b) = <<Airmass15, Airmass20>>

\* C6: add_constraint with a value that is not an instance of one of the six
\* variants fails with ValueError.
C6_NonVariantRefused ==
    (last.op = "add_constraint" /\ last.arg.cls \notin Classes) => last.err = "ValueError"

\* C6 for a value that is no SchedulingConstraint at all (the part of C6 the
\* code meets): the call fails and the block's constraints are as before.
C6_NonConstraintRefused ==
    [][(last'.op = "add_constraint" /\ last'.arg.cls = "dict")
          => (last'.err = "ValueError" /\ clists' = clists /\ blocks' = blocks)]_vars

\* C7: every element of a block's constraints, of a constructed block and of
\* a deserialized one, is an instance of one of the six variants with its
\* fields in the variant's declared domain.
C7_OnlyValidVariantsHeld ==
    /\ \A b \in 1..Len(blocks) : \A i \in 1..Len(Held(b)) : IsValidVariant(Held(b)[i])
    /\ parsed # NoBlock =>
           \A i \in 1..Len(parsed.constraints) : IsValidVariant(parsed.constraints[i])

\* C7 for blocks nothing was added to (construction and deserialization only):
\* every element is an instance of one of the six variants.
C7_OnlySixClassesWithoutAdd ==
    /\ \A b \in 1..Len(blocks) :
           (last.op = "new_block" => \A i \in 1..Len(Held(b)) : Held(b)[i].cls \in Classes)
    /\ parsed # NoBlock =>
           \A i \in 1..Len(parsed.constraints) : parsed.constraints[i].cls \in Classes

\* An assignment to a field of a constraint fails and changes nothing.
C10_AssignmentRefused ==
    last'.op = "setattr" => (last'.err = "ValidationError" /\ clists' = clists)

\* A constraint held in a block keeps its values.
C10_HeldValuesKept ==
    \A b \in 1..Len(blocks) : \A i \in 1..Len(Held(b)) :
        clists'[blocks[b].constraints][i] = Held(b)[i]

\* C10: every constraint instance is immutable: an assignment to any of its
\* fields fails with an error and leaves its values unchanged, so a constraint
\* held in a block keeps the values it was constructed with.
C10_ConstraintsImmutable == [][C10_AssignmentRefused /\ C10_HeldValuesKept]_vars

\* C10's case: an assignment to max of a constraint a block holds was tried.
C10_Witness ==
    /\ last.op = "setattr"
    /\ last.cls = "max"
    /\ Len(blocks) = 1
    /\ Held(1)[last.b].max # last.arg

(***************************************************************************)
(* Claims about the caller's references and the ids: SpecCaller.           *)
(***************************************************************************)
\* C8: a block owns its scripts and constraints exclusively: changing a script
\* or appending to a list through the caller's reference never changes the
\* scripts or constraints of a block.
C8_BlocksUnchangedByCaller ==
    [][last'.op \in {"caller_setattr", "caller_append_script", "caller_append_constraint"}
          => \A b \in 1..Len(blocks) : View(blocks[b])' = View(blocks[b])]_vars

\* The lists of a block are new list objects, the caller's and other blocks'
\* lists are others.
C8_ListsNotShared ==
    \A b \in 1..Len(blocks) :
        /\ blocks[b].scripts # CallerListRef
        /\ blocks[b].constraints # CallerListRef
        /\ \A c \in 1..Len(blocks) :
               c # b => /\ blocks[c].scripts # blocks[b].scripts
                        /\ blocks[c].constraints # blocks[b].constraints

\* The scripts of a block just constructed are the caller's script objects.
C8_ScriptObjectsShared ==
    (last.op = "new_block" /\ last.err = "none") =>
        slists[blocks[last.b].scripts] = slists[last.arg.scripts]

\* An append to the caller's list, or add_constraint on another block, leaves
\* the scripts and constraints of a block as they are.
C8_AppendElsewhereUnseen ==
    /\ last'.op \in {"caller_append_script", "caller_append_constraint"}
           => \A b \in 1..Len(blocks) : View(blocks[b])' = View(blocks[b])
    /\ last'.op = "add_constraint"
           => \A b \in 1..Len(blocks) : b # last'.b => View(blocks[b])' = View(blocks[b])

\* C8 as amended: the lists of a block are its own, so that an append to the
\* caller's list or to another block never changes the block; the script
\* objects in them are the caller's, shared by reference.
C8_ListsOwnedScriptsShared ==
    []C8_ListsNotShared /\ []C8_ScriptObjectsShared /\ [][C8_AppendElsewhereUnseen]_vars

\* C8's case: the caller appended to the list it built a block from.
C8_Witness ==
    /\ last.op = "caller_append_script"
    /\ Len(blocks) = 2
    /\ Len(slists[1]) > Len(slists[blocks[1].scripts])

\* Two blocks constructed without an id have different ids.
C9_DefaultIdsDistinct ==
    \A b \in 1..Len(blocks) : \A c \in 1..Len(blocks) :
        (b # c /\ blocks[b].idFrom = "default" /\ blocks[c].idFrom = "default")
            => blocks[b].id # blocks[c].id

\* A block constructed with an id has that id.
C9_GivenIdKept ==
    (last.op = "new_block" /\ last.err = "none" /\ last.arg.id # Missing) =>
        blocks[last.b].id = last.arg.id.n

\* The id of a block constructed without one is freshly generated, and no
\* call changes the id of a block.
C9_FreshAndUnchanged ==
    /\ (last'.op = "new_block" /\ last'.err = "none" /\ last'.arg.id = Missing)
           => blocks'[last'.b].id \notin generated
    /\ \A b \in 1..Len(blocks) : blocks'[b].id = blocks[b].id

\* C9: a block constructed without an id gets a freshly generated one, two
\* such blocks have different ids; a block constructed with an id has exactly
\* that id; add_constraint does not change the id.
C9_IdentifierSetAtConstruction ==
    []C9_DefaultIdsDistinct /\ []C9_GivenIdKept /\ [][C9_FreshAndUnchanged]_vars

\* C9's case: two blocks constructed without an id, a constraint added.
C9_Witness ==
    /\ Len(blocks) = 2
    /\ blocks[1].idFrom = "default"
    /\ blocks[2].idFrom = "default"
    /\ last.op = "add_constraint"
    /\ last.err = "none"

====
